---- MODULE Spec2Model ----
(***************************************************************************)
(* A model of src/animeapiv5fasttry.py: the TTL cache (CacheManager), the  *)
(* cache-through fetcher (fetch_with_cache), the four request handlers     *)
(* (home, search, detail, stream) with their fan-out rounds, and the       *)
(* stream-URL extraction and classification functions.                     *)
(*                                                                         *)
(* Time is time.time() in seconds.  Text is modelled by TLA+ strings, so   *)
(* that prefix, substring and regular-expression matches are computed.     *)
(***************************************************************************)
EXTENDS Integers, Sequences, FiniteSets, TLC

VARIABLES
    cache,      \* CacheManager.cache: key -> [data, timestamp]
    lock,       \* CacheManager.lock: the thread holding it, or NoThread
    now,        \* the value time.time() returns
    th,         \* SpecCache: each caller thread's position and locals
    lastSet,    \* SpecCache, history: key -> the last set since the last clear
    cleared,    \* SpecCache, history: keys a clear removed and no set has written since
    calls,      \* SpecCache: number of cache calls issued so far
    rq,         \* Spec: each request thread's position and locals
    lastOK,     \* Spec, history: cache key -> the last derived response stored
    lastRaw,    \* Spec, history: cache key -> the last page body stored
    requests,   \* Spec: number of requests started so far
    endpoint    \* Spec: the endpoint the requests of this behaviour go to

vars == <<cache, lock, now, th, lastSet, cleared, calls, rq, lastOK, lastRaw, requests, endpoint>>
cacheVars == <<lock, th, lastSet, cleared, calls>>
opVars == <<rq, lastOK, lastRaw, requests, endpoint>>

(***************************************************************************)
(* Bounds of the model                                                     *)
(***************************************************************************)
MaxTime == 300          \* the clock stops advancing here
MaxCalls == 3           \* SpecCache: cache calls issued per behaviour
MaxRequests == 2        \* Spec: requests started per behaviour
TickSteps == {150}      \* the clock advances by one of these (seconds)

Threads == {"t1", "t2"}
NoThread == "none"

(***************************************************************************)
(* CacheManager (src/animeapiv5fasttry.py:39-64)                           *)
(***************************************************************************)
ttl == 300

None == [kind |-> "None"]
Str(s) == [kind |-> "str", s |-> s]

EmptyCache == [k \in {} |-> None]

\* get, line 49 with the comparison turned around: an entry of age ttl is served
Fresh_mutant(timestamp, t) == t - timestamp <= ttl
\* get, line 49: time.time() - timestamp < self.ttl
Fresh(timestamp, t) == t - timestamp < ttl

\* get, lines 47-53: the value returned when time.time() reads t
CacheManager_get(c, key, t) ==
    IF key \in DOMAIN c /\ Fresh(c[key].timestamp, t) THEN c[key].data ELSE None

\* get, lines 51-52: the dictionary after the call (an expired entry is deleted)
CacheManager_evict(c, key, t) ==
    IF key \in DOMAIN c /\ ~Fresh(c[key].timestamp, t)
    THEN [k \in DOMAIN c \ {key} |-> c[k]]
    ELSE c

\* set that keeps an entry already present (setdefault instead of assignment)
CacheManager_set_mutant(c, key, value, t) ==
    IF key \in DOMAIN c THEN c
    ELSE [k \in DOMAIN c \cup {key} |->
            IF k = key THEN [data |-> value, timestamp |-> t] ELSE c[k]]
\* set, line 57: self.cache[key] = (value, time.time())
CacheManager_set(c, key, value, t) ==
    [k \in DOMAIN c \cup {key} |->
        IF k = key THEN [data |-> value, timestamp |-> t] ELSE c[k]]

\* clear that drops one entry only (pop of a key instead of clear)
CacheManager_clear_mutant(c) == [k \in DOMAIN c \ {"k1"} |-> c[k]]
\* clear, line 61: self.cache.clear()
CacheManager_clear(c) == EmptyCache

\* the clock: time.time() between any two steps of the program
Tick ==
    /\ \E d \in TickSteps : now + d <= MaxTime /\ now' = now + d
    /\ UNCHANGED <<cache, cacheVars, opVars>>

(***************************************************************************)
(* SpecCache: threads calling get, set and clear on the one CacheManager,  *)
(* each call being "with self.lock:" around its body.                      *)
(***************************************************************************)
CKeys == {"k1", "k2"}
CValues == {Str("v1"), Str("v2")}

IdleThread == [pc |-> "idle", op |-> "none", key |-> "k1", value |-> None,
               ret |-> None, timestamp |-> -1, at |-> -1]

InitCache ==
    /\ cache = EmptyCache
    /\ lock = NoThread
    /\ now = 0
    /\ th = [t \in Threads |-> IdleThread]
    /\ lastSet = [k \in CKeys |-> None]
    /\ cleared = {}
    /\ calls = 0
    /\ rq = [t \in Threads |-> None]
    /\ lastOK = None
    /\ lastRaw = None
    /\ requests = 0
    /\ endpoint = "none"

\* a thread enters get(key), set(key, value) or clear()
Call(t) ==
    /\ th[t].pc = "idle"
    /\ calls < MaxCalls
    /\ calls' = calls + 1
    /\ \E op \in {"get", "set", "clear"}, k \in CKeys, v \in CValues :
          th' = [th EXCEPT ![t] = [IdleThread EXCEPT !.pc = "acquire", !.op = op,
                    !.key = k, !.value = IF op = "set" THEN v ELSE None]]
    /\ UNCHANGED <<cache, lock, now, lastSet, cleared, opVars>>

\* with self.lock: __enter__ (lines 46, 56, 60)
Acquire(t) ==
    /\ th[t].pc = "acquire"
    /\ lock = NoThread
    /\ lock' = t
    /\ th' = [th EXCEPT ![t].pc = "body"]
    /\ UNCHANGED <<cache, now, lastSet, cleared, calls, opVars>>

\* get's body, lines 47-53
GetBody(t) ==
    /\ th[t].pc = "body" /\ th[t].op = "get"
    /\ cache' = CacheManager_evict(cache, th[t].key, now)
    /\ th' = [th EXCEPT ![t].pc = "release",
                        ![t].ret = CacheManager_get(cache, th[t].key, now),
                        ![t].timestamp = IF th[t].key \in DOMAIN cache
                                         THEN cache[th[t].key].timestamp ELSE -1,
                        ![t].at = now]
    /\ UNCHANGED <<lock, now, lastSet, cleared, calls, opVars>>

\* set's body, line 57
SetBody(t) ==
    /\ th[t].pc = "body" /\ th[t].op = "set"
    /\ cache' = CacheManager_set(cache, th[t].key, th[t].value, now)
    /\ lastSet' = [lastSet EXCEPT ![th[t].key] = [data |-> th[t].value, timestamp |-> now]]
    /\ cleared' = cleared \ {th[t].key}
    /\ th' = [th EXCEPT ![t].pc = "release", ![t].at = now]
    /\ UNCHANGED <<lock, now, calls, opVars>>

\* clear's body, line 61
ClearBody(t) ==
    /\ th[t].pc = "body" /\ th[t].op = "clear"
    /\ cache' = CacheManager_clear(cache)
    /\ lastSet' = [k \in CKeys |-> None]
    /\ cleared' = cleared \cup DOMAIN cache
    /\ th' = [th EXCEPT ![t].pc = "release", ![t].at = now]
    /\ UNCHANGED <<lock, now, calls, opVars>>

\* with self.lock: __exit__, and the return
Release(t) ==
    /\ th[t].pc = "release"
    /\ lock = t
    /\ lock' = NoThread
    /\ th' = [th EXCEPT ![t] = IdleThread]
    /\ UNCHANGED <<cache, now, lastSet, cleared, calls, opVars>>

NextCache ==
    \/ Tick
    \/ \E t \in Threads : Call(t)
    \/ \E t \in Threads : Acquire(t)
    \/ \E t \in Threads : GetBody(t)
    \/ \E t \in Threads : SetBody(t)
    \/ \E t \in Threads : ClearBody(t)
    \/ \E t \in Threads : Release(t)

SpecCache == InitCache /\ [][NextCache]_vars

\* a get that has run its body and is about to return th[t].ret
GetDone(t) == th[t].op = "get" /\ th[t].pc = "release"

(***************************************************************************)
(* C1: a get never returns a value whose age, time.time() - timestamp as   *)
(* read in its body, is >= ttl; when the entry it found is expired, the    *)
(* entry is gone and None is the result before the lock is released; and   *)
(* the bodies of get, set and clear run only with the lock held.           *)
(***************************************************************************)
C1_NoExpiredRead ==
    \A t \in Threads :
        /\ th[t].pc \in {"body", "release"} => lock = t
        /\ GetDone(t) /\ th[t].ret # None =>
              th[t].timestamp >= 0 /\ th[t].at - th[t].timestamp < ttl
        /\ (th[t].op = "get" /\ th[t].pc = "release"
              /\ th[t].timestamp >= 0 /\ th[t].at - th[t].timestamp >= ttl) =>
              th[t].ret = None /\ th[t].key \notin DOMAIN cache

\* a get found an entry of age exactly ttl, deleted it and returns None
C1_Witness ==
    \E t \in Threads :
        /\ th[t].op = "get" /\ th[t].pc = "release"
        /\ th[t].timestamp >= 0 /\ th[t].at - th[t].timestamp = ttl
        /\ th[t].ret = None

(***************************************************************************)
(* C2: a get(k) whose body runs less than ttl after the body of the last   *)
(* set(k, v), with no clear in between, returns v: the last set wins and   *)
(* restarts the age of the entry.                                          *)
(***************************************************************************)
C2_SetThenGet ==
    \A t \in Threads :
        (/\ th[t].op = "get" /\ th[t].pc = "release"
         /\ lastSet[th[t].key] # None
         /\ th[t].at - lastSet[th[t].key].timestamp < ttl)
        => th[t].ret = lastSet[th[t].key].data

\* a get returns the second of two sets on its key, the first one being expired
C2_Witness ==
    \E t \in Threads :
        /\ th[t].op = "get" /\ th[t].pc = "release"
        /\ th[t].ret = Str("v2")
        /\ th[t].timestamp >= ttl
        /\ lastSet[th[t].key] = [data |-> Str("v2"), timestamp |-> th[t].timestamp]

(***************************************************************************)
(* Text: Python's str operations on TLA+ strings                           *)
(***************************************************************************)
\* str.startswith
StartsWith(s, p) == Len(s) >= Len(p) /\ SubSeq(s, 1, Len(p)) = p
\* str.endswith
EndsWith(s, p) == Len(s) >= Len(p) /\ SubSeq(s, Len(s) - Len(p) + 1, Len(s)) = p
\* s[n:]
Drop(s, n) == SubSeq(s, n + 1, Len(s))
\* s[i-1:j], which stops at the end of s
Slice(s, i, j) == SubSeq(s, i, IF j > Len(s) THEN Len(s) ELSE j)
\* p in s
Contains(s, p) == \E i \in 1..(Len(s) - Len(p) + 1) : SubSeq(s, i, i + Len(p) - 1) = p

\* str.replace(old, new): every occurrence, left to right
RECURSIVE Replace(_, _, _)
Replace(s, old, new) ==
    IF Len(s) < Len(old) THEN s
    ELSE IF StartsWith(s, old) THEN new \o Replace(Drop(s, Len(old)), old, new)
    ELSE SubSeq(s, 1, 1) \o Replace(Drop(s, 1), old, new)

\* ', '.join(seq)
RECURSIVE Join(_, _)
Join(seq, sep) ==
    IF seq = <<>> THEN ""
    ELSE IF Len(seq) = 1 THEN seq[1]
    ELSE seq[1] \o sep \o Join(Tail(seq), sep)

\* the elements of a sequence
Range(seq) == {seq[i] : i \in DOMAIN seq}

UpperCase == "ABCDEFGHIJKLMNOPQRSTUVWXYZ"
LowerCase == "abcdefghijklmnopqrstuvwxyz"

UpperLetters == {SubSeq(UpperCase, i, i) : i \in 1..26}

\* str.lower of one character
LowerChar(c) ==
    IF c \in UpperLetters
    THEN LET i == CHOOSE i \in 1..26 : SubSeq(UpperCase, i, i) = c
         IN  SubSeq(LowerCase, i, i)
    ELSE c

\* str.lower
RECURSIVE Lower(_)
Lower(s) ==
    IF \A i \in 1..Len(s) : SubSeq(s, i, i) \notin UpperLetters THEN s
    ELSE LowerChar(SubSeq(s, 1, 1)) \o Lower(Drop(s, 1))

Min(S) == CHOOSE x \in S : \A y \in S : x <= y
Max(S) == CHOOSE x \in S : \A y \in S : x >= y

(***************************************************************************)
(* The site and the request parameters                                     *)
(***************************************************************************)
BASE_URL == "https://animesalt.cc"

\* remove_base_url, lines 66-70
remove_base_url(url) ==
    IF StartsWith(url, BASE_URL) THEN Replace(url, BASE_URL, "") ELSE url

\* add_base_url, lines 72-76
add_base_url(url) ==
    IF ~StartsWith(url, "http")
    THEN (IF StartsWith(url, "/") THEN BASE_URL \o url ELSE BASE_URL \o "/" \o url)
    ELSE url

\* hashlib.md5(url.encode()).hexdigest(): a digest per URL, no request key is one
md5(url) == "md5:" \o url

\* urllib.parse.quote_plus on letters and spaces
quote_plus(q) == Replace(q, " ", "+")

\* what markup leaves out: an element that is not there, an attribute that is not
Absent == "<absent>"
NoAttr == "<noattr>"

\* the request parameters of the model: q, and the <path:url_path> of detail and stream
search_query == "one piece"
anime_path == "series/x"
stream_path == "x-1x1"

Ops == {"home", "search", "detail", "stream"}

\* lines 199, 259, 314, 442
cache_key(op) ==
    CASE op = "home" -> "homepage_data"
      [] op = "search" -> "search_" \o search_query
      [] op = "detail" -> "anime_info_" \o anime_path
      [] op = "stream" -> "stream_" \o stream_path

\* lines 447-450
final_path(url_path) ==
    IF StartsWith(url_path, "movies/") \/ StartsWith(url_path, "episode/")
    THEN url_path ELSE "episode/" \o url_path

\* the page each handler fetches: lines 205, 264-265, 319, 452
page_url(op) ==
    CASE op = "home" -> BASE_URL
      [] op = "search" -> BASE_URL \o "?s=" \o quote_plus(search_query)
      [] op = "detail" -> add_base_url(anime_path)
      [] op = "stream" -> add_base_url(final_path(stream_path))

\* the use_cache argument of each handler's fetch_with_cache: lines 205, 268, 322, 455
use_cache(op) == op # "stream"

DerivedKeys == {cache_key(op) : op \in Ops}
RawKeys == {md5(page_url(op)) : op \in Ops}

(***************************************************************************)
(* Values: page bodies are Str, responses are dictionaries or lists        *)
(***************************************************************************)
Dict(d) == [kind |-> "dict", d |-> d]
List(items) == [kind |-> "list", items |-> items]

\* Python's truth value of what cache.get returned: "if cached_data:", lines 83, 201
Truthy(v) ==
    CASE v.kind = "None" -> FALSE
      [] v.kind = "str" -> v.s # ""
      [] v.kind = "dict" -> DOMAIN v.d # {}
      [] v.kind = "list" -> v.items # <<>>

\* jsonify(result), and jsonify({"error": str(e)}), 500
Ok(result) == [status |-> 200, body |-> result]
Error(status, message) == [status |-> status, body |-> Dict([error |-> message])]

(***************************************************************************)
(* search_anime: the result items of a page (lines 270-297)                *)
(***************************************************************************)
SearchGood1 == [title |-> "One Piece", href |-> "https://animesalt.cc/series/one-piece/",
                img |-> "//img/op.jpg", classes |-> <<"post", "category-action">>]
SearchGood2 == [title |-> "Piece 2", href |-> "/series/piece-2/",
                img |-> "//img/p2.jpg", classes |-> <<"category-a", "category-b">>]
SearchSparse == [title |-> Absent, href |-> Absent, img |-> NoAttr, classes |-> <<>>]
SearchNoHref == [title |-> "Broken", href |-> NoAttr, img |-> Absent, classes |-> <<"post">>]
\* links to the upstream site: one naming the site again in its query, one by http
SearchShare == [title |-> "Share", classes |-> <<>>, img |-> Absent,
                href |-> "https://animesalt.cc/go?u=https://animesalt.cc/series/x/"]
SearchHttp == [title |-> "Plain", classes |-> <<>>, img |-> Absent,
               href |-> "http://animesalt.cc/series/x/"]

\* the pages the upstream serves for the search URL
SearchDocs == {"", "<li>1</li><li>2</li><li>sparse</li>", "<li>1</li><li>nohref</li><li>2</li>",
               "<li>share</li><li>http</li>"}

\* soup.select('ul.post-lst > li'), line 270
results_container(doc) ==
    CASE doc = "<li>1</li><li>2</li><li>sparse</li>" -> <<SearchGood1, SearchGood2, SearchSparse>>
      [] doc = "<li>1</li><li>nohref</li><li>2</li>" -> <<SearchGood1, SearchNoHref, SearchGood2>>
      [] doc = "<li>share</li><li>http</li>" -> <<SearchShare, SearchHttp>>
      [] OTHER -> <<>>

\* line 287: [cls.replace('category-', '') for cls in item_classes
\*            if cls.startswith('category-')]
RECURSIVE Categories(_)
Categories(item_classes) ==
    IF item_classes = <<>> THEN <<>>
    ELSE (IF StartsWith(item_classes[1], "category-")
          THEN <<Replace(item_classes[1], "category-", "")>> ELSE <<>>)
         \o Categories(Tail(item_classes))

\* line 280: link_element['href'] raises KeyError on an anchor without href
search_item_raises(item) == item.href = NoAttr

\* lines 276-295, for an item that does not raise
search_item(item) ==
    LET categories == Categories(item.classes)
    IN  [title |-> IF item.title # Absent THEN item.title ELSE "N/A",
         link |-> remove_base_url(IF item.href # Absent THEN item.href ELSE "N/A"),
         image_url |-> IF item.img \notin {Absent, NoAttr} THEN item.img ELSE "N/A",
         categories |-> IF categories # <<>> THEN Join(categories, ", ") ELSE "N/A"]

\* lines 271-299: the result, when no item raises
search_result(doc) ==
    LET scraped_data == [i \in DOMAIN results_container(doc) |->
                            search_item(results_container(doc)[i])]
    IN  Dict([results |-> scraped_data, count |-> Len(scraped_data)])

(***************************************************************************)
(* get_homepage_data: the sections of a page (lines 105-192, 210-240)      *)
(***************************************************************************)
ChartGood == [title |-> "Naruto", href |-> "https://animesalt.cc/series/naruto/",
              img |-> "//img/n.jpg"]
ChartNoTitle == [title |-> Absent, href |-> "/series/x/", img |-> "//img/x.jpg"]
SlideGood == [li |-> TRUE, title |-> "Bleach", href |-> "https://animesalt.cc/series/bleach/",
              img |-> "https://img/b.jpg", year |-> "EP 12"]
SlideNoHref == [li |-> TRUE, title |-> "Broken", href |-> NoAttr, img |-> Absent,
                year |-> Absent]
SlideNoAnchor == [li |-> TRUE, title |-> "Loose", href |-> Absent, img |-> NoAttr,
                  year |-> Absent]

\* the pages the upstream serves for the home URL
HomeDocs == {"", "<html>no sections</html>", "<h3>Most-Watched</h3><section>Fresh Drops</section>",
             "<section>Movies</section><section>Movies</section>"}

\* soup.find_all('h3', class_='section-title', string=... "Most-Watched" ...), line 210,
\* each with its chart container
most_watched_titles(doc) ==
    IF doc = "<h3>Most-Watched</h3><section>Fresh Drops</section>"
    THEN <<[name |-> "Most-Watched Series", container |-> TRUE,
            items |-> <<ChartGood, ChartNoTitle>>],
           [name |-> "Most-Watched Films", container |-> FALSE, items |-> <<>>]>>
    ELSE <<>>

\* soup.find_all('section', class_=... widget ...), line 227
widget_sections(doc) ==
    CASE doc = "<h3>Most-Watched</h3><section>Fresh Drops</section>" ->
            <<[name |-> "Fresh Drops", wrapper |-> TRUE,
               slides |-> <<SlideNoHref, SlideGood, SlideNoAnchor>>]>>
      [] doc = "<section>Movies</section><section>Movies</section>" ->
            <<[name |-> "Movies", wrapper |-> TRUE, slides |-> <<SlideGood>>],
              [name |-> "Movies", wrapper |-> TRUE, slides |-> <<SlideGood, SlideGood>>]>>
      [] OTHER -> <<>>

\* 'https:' + image for a protocol-relative image, lines 127-128, 167-168
AbsImage(image) == IF StartsWith(image, "//") THEN "https:" \o image ELSE image

\* lines 121-131: the chart items, one whose extraction raises being skipped
RECURSIVE chart_items(_)
chart_items(items) ==
    IF items = <<>> THEN <<>>
    ELSE (IF \/ items[1].title = Absent
             \/ items[1].href \in {Absent, NoAttr}
             \/ items[1].img \in {Absent, NoAttr}
          THEN <<>>
          ELSE <<[title |-> items[1].title, link |-> remove_base_url(items[1].href),
                  image |-> AbsImage(items[1].img)]>>)
         \o chart_items(Tail(items))

\* scrape_section_parallel, lines 105-133
scrape_section_parallel(section) ==
    [name |-> section.name,
     data |-> IF section.container THEN chart_items(section.items) ELSE <<>>]

\* lines 150-190: the slides; no list item, no title or a raise skip the slide
RECURSIVE swiper_items(_, _)
swiper_items(slides, section_name) ==
    IF slides = <<>> THEN <<>>
    ELSE LET slide == slides[1]
             link == IF slide.href # Absent THEN remove_base_url(slide.href) ELSE "N/A"
             image == IF slide.img \notin {Absent, NoAttr} THEN AbsImage(slide.img) ELSE "N/A"
             episodes == IF slide.year # Absent THEN slide.year ELSE "N/A"
         IN  (IF ~slide.li \/ slide.href = NoAttr \/ slide.title = Absent
              THEN <<>>
              ELSE IF section_name = "Fresh Drops"
              THEN <<[title |-> slide.title, link |-> link, image |-> image,
                      episodes |-> episodes]>>
              ELSE <<[title |-> slide.title, link |-> link, image |-> image]>>)
             \o swiper_items(Tail(slides), section_name)

\* scrape_swiper_section_parallel, lines 135-192
scrape_swiper_section_parallel(section) ==
    IF section.name = Absent THEN [name |-> Absent, data |-> <<>>]
    ELSE [name |-> section.name,
          data |-> IF section.wrapper THEN swiper_items(section.slides, section.name)
                   ELSE <<>>]

\* all_anime_data[section_name] = section_data, lines 223-224 and 238-240
put_section(all_anime_data, res) ==
    IF res.data = <<>> THEN all_anime_data
    ELSE [n \in DOMAIN all_anime_data \cup {res.name} |->
            IF n = res.name THEN res.data ELSE all_anime_data[n]]

NoSections == [n \in {} |-> <<>>]

(***************************************************************************)
(* get_anime_info: the page, its season buttons and the season fragments   *)
(* (lines 323-343, 371-410, 420-435)                                       *)
(***************************************************************************)
\* the pages the upstream serves for the detail URL
DetailDocs == {"", "<h1>Solo</h1>", "<h1>Duo</h1><a.season-btn/><a.season-btn/>",
               "<h1>Gap</h1><a.season-btn/><a/><a.season-btn/>"}

\* lines 326-338: title, og:image and languages
anime_main(doc) ==
    CASE doc = "<h1>Solo</h1>" ->
            [title |-> "Solo", image_url |-> "N/A", languages |-> <<>>]
      [] doc = "<h1>Duo</h1><a.season-btn/><a.season-btn/>" ->
            [title |-> "Duo", image_url |-> "https://img/duo.jpg",
             languages |-> <<"Hindi", "English">>]
      [] doc = "<h1>Gap</h1><a.season-btn/><a/><a.season-btn/>" ->
            [title |-> "Gap", image_url |-> "N/A", languages |-> <<"Tamil">>]
      [] OTHER -> [title |-> "N/A", image_url |-> "N/A", languages |-> <<>>]

\* soup.find_all('a', class_='season-btn'), line 341, with data-post and data-season
season_buttons(doc) ==
    CASE doc = "<h1>Duo</h1><a.season-btn/><a.season-btn/>" ->
            <<[post |-> "7", season |-> "1"], [post |-> "7", season |-> "2"]>>
      [] doc = "<h1>Gap</h1><a.season-btn/><a/><a.season-btn/>" ->
            <<[post |-> "7", season |-> "1"], [post |-> NoAttr, season |-> "2"],
              [post |-> "7", season |-> "3"]>>
      [] OTHER -> <<>>

\* line 355: if button.get('data-post') and button.get('data-season')
HasSeason(button) == button.post \notin {NoAttr, ""} /\ button.season \notin {NoAttr, ""}

\* the <li> items admin-ajax.php answers for a season (line 433)
season_lis(button) ==
    CASE button.season = "1" ->
            <<[href |-> "https://animesalt.cc/episode/x-1x1/", num |-> "1x1",
               title |-> "Pilot", data_src |-> "//img/1x1.jpg", src |-> Absent],
              [href |-> Absent, num |-> "1x2", title |-> "Lost", data_src |-> Absent,
               src |-> Absent]>>
      [] button.season = "2" ->
            <<[href |-> "https://animesalt.cc/episode/x-2x1/", num |-> Absent,
               title |-> Absent, data_src |-> Absent, src |-> "/img/2x1.jpg"]>>
      [] OTHER ->
            <<[href |-> "https://animesalt.cc/episode/x-3x1/", num |-> "3x1",
               title |-> "Three", data_src |-> Absent, src |-> Absent]>>

\* str.lstrip('/')
RECURSIVE lstrip_slash(_)
lstrip_slash(s) == IF StartsWith(s, "/") THEN lstrip_slash(Drop(s, 1)) ELSE s

\* lines 373-400: the episode records of the <li> items, in order
RECURSIVE episode_records(_)
episode_records(all_episode_items) ==
    IF all_episode_items = <<>> THEN <<>>
    ELSE LET item == all_episode_items[1]
             ep_url == IF StartsWith(item.href, "/")
                       THEN BASE_URL \o lstrip_slash(item.href) ELSE item.href
         IN  (IF item.href \in {Absent, NoAttr, ""} THEN <<>>
              ELSE <<[episode_number |-> IF item.num # Absent THEN item.num ELSE "N/A",
                      title |-> IF item.title # Absent THEN item.title ELSE "N/A",
                      url |-> remove_base_url(ep_url),
                      image_url |-> IF item.data_src \notin {Absent, ""} THEN item.data_src
                                    ELSE IF item.src \notin {Absent, ""} THEN item.src
                                    ELSE "N/A"]>>)
             \o episode_records(Tail(all_episode_items))

\* lines 367-369: all_episode_items.extend(episodes) for each non-empty result
RECURSIVE extend_all(_)
extend_all(season_results) ==
    IF season_results = <<>> THEN <<>>
    ELSE (IF Truthy(season_results[1]) THEN season_results[1].items ELSE <<>>)
         \o extend_all(Tail(season_results))

\* lines 403-410
anime_data(doc, all_episodes) ==
    Dict([title |-> anime_main(doc).title, url |-> anime_path,
          image_url |-> anime_main(doc).image_url,
          languages |-> anime_main(doc).languages,
          total_episodes |-> Len(all_episodes), episodes |-> all_episodes])

(***************************************************************************)
(* get_streaming_links: stream-URL extraction and classification           *)
(* (lines 458-501, 511-545).  A text is the sequence of its words: the     *)
(* maximal runs of characters other than white space, quotes, <, > and `,  *)
(* which are the characters no match of the two patterns can hold.         *)
(***************************************************************************)
\* the length of https?:// at position p of a lower-cased word, 0 when not there
SchemeLen(lw, p) ==
    IF Slice(lw, p, p + 7) = "https://" THEN 8
    ELSE IF Slice(lw, p, p + 6) = "http://" THEN 7
    ELSE 0

\* the positions where one of the extensions starts, at or after position from
ExtAt(lw, exts, from) ==
    {q \in from..Len(lw) : \E e \in exts : Slice(lw, q, q + Len(e) - 1) = e}

\* the positions where a pattern "https?://[^...]+<ext>" can start to match
MatchStarts(lw, exts) ==
    {p \in 1..Len(lw) : SchemeLen(lw, p) > 0
                        /\ ExtAt(lw, exts, p + SchemeLen(lw, p) + 1) # {}}

\* m3u8_pattern.findall on a word, line 525: from the leftmost start to the
\* end of the word
m3u8_findall(w) ==
    LET starts == MatchStarts(Lower(w), {".m3u8"})
    IN  IF starts = {} THEN {} ELSE {Drop(w, Min(starts) - 1)}

VideoExts == {".mp4", ".webm", ".ogg", ".mov", ".mkv", ".ts"}

\* video_pattern.findall on a word, line 526: from the leftmost start to the
\* last extension of the word (the + is greedy), with the query that follows it;
\* the search goes on behind the match
RECURSIVE video_findall(_)
video_findall(w) ==
    LET lw == Lower(w)
        starts == MatchStarts(lw, VideoExts)
    IN  IF starts = {} THEN {}
        ELSE LET p == Min(starts)
                 q == Max(ExtAt(lw, VideoExts, p + SchemeLen(lw, p) + 1))
                 e == CHOOSE e \in VideoExts : Slice(lw, q, q + Len(e) - 1) = e
                 stop == IF Slice(w, q + Len(e), q + Len(e)) = "?"
                         THEN Len(w) ELSE q + Len(e) - 1
             IN  {SubSeq(w, p, stop)} \cup video_findall(Drop(w, stop))

\* scheme://host of an absolute URL
Origin(url) ==
    LET n == SchemeLen(Lower(url), 1)
        slashes == {i \in (n + 1)..Len(url) : SubSeq(url, i, i) = "/"}
    IN  IF slashes = {} THEN url ELSE SubSeq(url, 1, Min(slashes) - 1)

\* an absolute URL up to the last / of its path
DirOf(url) ==
    LET n == SchemeLen(Lower(url), 1)
        slashes == {i \in (n + 1)..Len(url) : SubSeq(url, i, i) = "/"}
    IN  IF slashes = {} THEN url \o "/" ELSE SubSeq(url, 1, Max(slashes))

\* urllib.parse.urljoin(base, url) for an absolute base, on URLs without
\* dot segments, parameters and fragments: a URL of the base's scheme is put
\* together again with its scheme in lower case, one of another scheme is
\* returned as it is
urljoin(base, url) ==
    LET n == SchemeLen(Lower(url), 1)
        bn == SchemeLen(Lower(base), 1)
    IN  IF n > 0 THEN (IF n = bn THEN Lower(SubSeq(url, 1, n)) \o Drop(url, n) ELSE url)
        ELSE IF url = "" THEN base
        ELSE IF StartsWith(url, "//") THEN Lower(SubSeq(base, 1, bn - 2)) \o url
        ELSE IF StartsWith(url, "/") THEN Origin(base) \o url
        ELSE DirOf(base) \o url

\* the words of a text
Words(text) == {text[i].s : i \in DOMAIN text}

\* find_urls_in_text, lines 523-532
find_urls_in_text(text, base_url) ==
    {urljoin(base_url, url) :
        url \in UNION {m3u8_findall(w) \cup video_findall(w) : w \in Words(text)}}

\* find_js_file_urls, lines 534-545
find_js_file_urls(text, base_url) ==
    {urljoin(base_url, text[i].s) :
        i \in {j \in DOMAIN text : /\ text[j].tag = "script"
                                   /\ \/ EndsWith(text[j].s, ".js")
                                      \/ Contains(text[j].s, "javascript")}}

\* lines 479-480
found_iframes(text, source_url) ==
    {urljoin(source_url, text[i].s) : i \in {j \in DOMAIN text : text[j].tag = "iframe"}}

NonStreamExts == {".js", ".css", ".png", ".jpg", ".gif", ".svg", ".ico"}

\* lines 486-489
filtered_streams(all_streams) ==
    {url \in all_streams :
        LET lower == Lower(url) IN ~\E ext \in NonStreamExts : Contains(lower, ext)}

\* line 492
m3u8_links(filtered) == {url \in filtered : Contains(Lower(url), ".m3u8")}

\* line 493
video_links(filtered) ==
    {url \in filtered :
        LET lower == Lower(url)
        IN  \E ext \in {".mp4", ".webm", ".mov", ".ts"} : Contains(lower, ext)}

\* lines 495-501; the three lists come from sets and hold no URL twice
stream_result(text, source_url, all_streams) ==
    LET filtered == filtered_streams(all_streams)
        m3u8 == m3u8_links(filtered)
        video == video_links(filtered)
        iframes == found_iframes(text, source_url)
    IN  Dict([episode_url |-> stream_path,
              m3u8_links |-> m3u8,
              video_links |-> video,
              iframes |-> iframes,
              total_streams |-> Cardinality(m3u8) + Cardinality(video)
                                + Cardinality(iframes)])

\* line 467: js_file_urls[:5]
ScanLimit == 5

Text(s) == [tag |-> "text", s |-> s]
Script(src) == [tag |-> "script", s |-> src]
Iframe(src) == [tag |-> "iframe", s |-> src]

\* the pages the upstream serves for the stream URL
StreamDocs == {"", "<video/>", "<live/>"}

\* a page that refers to more scripts than one request scans
ScriptDocs == {"<scripts/>"}

\* the words of a page, the src values of its script and iframe tags among them
page_text(doc) ==
    CASE doc = "<scripts/>" ->
            <<Script("/js/1.js"), Script("/js/2.js"), Script("/js/3.js"),
              Script("/js/1.js"), Script("/js/4.js"), Script("/js/5.js"),
              Script("/js/6.js"), Text("https://x.test/a.m3u8")>>
      [] doc = "<video/>" ->
            <<Text("https://x.test/a.m3u8"), Text("https://x.test/b.mp4"),
              Text("https://x.test/c.css"), Script("/js/player.js"),
              Iframe("/embed/1")>>
      [] doc = "<live/>" ->
            <<Text("https://x.test/seg.ts.m3u8"), Text("https://x.test/c.mkv"),
              Text("HTTPS://x.test/B.MP4?t=1"), Script("https://cdn.test/app.js"),
              Script("https://cdn.test/lib.css"), Iframe("https://x.test/live.m3u8")>>
      [] OTHER -> <<>>

\* the words of the scripts the upstream serves
js_text(js_url) ==
    CASE js_url = "https://animesalt.cc/js/player.js" ->
            <<Text("src=https://cdn.test/v.webm"), Text("player.init()")>>
      [] js_url = "https://cdn.test/app.js" ->
            <<Text("https://cdn.jsdelivr.test/hls/i.m3u8"), Text("https://x.test/a.ogg")>>
      [] OTHER -> <<>>

\* lines 458 and 461 for each page: html_streams and js_file_urls
html_streams ==
    [doc \in StreamDocs \cup ScriptDocs |->
        find_urls_in_text(page_text(doc), page_url("stream"))]
js_file_urls ==
    [doc \in StreamDocs \cup ScriptDocs |->
        find_js_file_urls(page_text(doc), page_url("stream"))]

\* scan_js_file, lines 517-519, for each script a page refers to
scan_js_file ==
    [js_url \in UNION {js_file_urls[doc] : doc \in StreamDocs \cup ScriptDocs} |->
        find_urls_in_text(js_text(js_url), js_url)]

\* lines 478-501 for each page and each js_streams its scans may add up to
stream_results ==
    [doc \in StreamDocs \cup ScriptDocs |->
        [js_streams \in {UNION {scan_js_file[u] : u \in scanned} :
                            scanned \in SUBSET js_file_urls[doc]} |->
            stream_result(page_text(doc), page_url("stream"),
                          html_streams[doc] \cup js_streams)]]

(***************************************************************************)
(* The request handlers                                                    *)
(***************************************************************************)
\* the pages the upstream may serve for a handler's page URL
Upstream(op) ==
    CASE op = "search" -> SearchDocs
      [] op = "home" -> HomeDocs
      [] op = "detail" -> DetailDocs
      [] op = "stream" -> StreamDocs

IdleRequest == [pc |-> "idle", op |-> "none", html |-> None, result |-> None,
                resp |-> None, fetches |-> 0, netFailed |-> FALSE, hadFresh |-> FALSE,
                prior |-> None, stored |-> {}, running |-> {}, outcome |-> <<>>,
                all_anime_data |-> NoSections, season_results |-> <<>>, subfetches |-> 0,
                order |-> <<>>, js_streams |-> {}, all_streams |-> {}, cache_age |-> -1]

Init ==
    /\ cache = EmptyCache
    /\ lock = NoThread
    /\ now = 0
    /\ th = [t \in Threads |-> IdleThread]
    /\ lastSet = [k \in CKeys |-> None]
    /\ cleared = {}
    /\ calls = 0
    /\ rq = [t \in Threads |-> IdleRequest]
    /\ lastOK = [k \in DerivedKeys |-> None]
    /\ lastRaw = [k \in RawKeys |-> None]
    /\ requests = 0
    /\ endpoint \in Ops

\* what a request starting now should be answered with from the cache: the last
\* response stored under its key, when that was less than ttl ago
Prior(key) ==
    IF lastOK[key] # None /\ now - lastOK[key].at < ttl THEN lastOK[key].resp ELSE None

\* a handler is entered and probes the cache: lines 199-202, 259-262, 314-317, 442-445
handler_probe(t) ==
    /\ rq[t].pc = "idle"
    /\ requests < MaxRequests
    /\ requests' = requests + 1
    /\ \E op \in {endpoint} :
        LET cached_result == CacheManager_get(cache, cache_key(op), now)
            started == [IdleRequest EXCEPT !.op = op, !.prior = Prior(cache_key(op))]
        IN  /\ cache' = CacheManager_evict(cache, cache_key(op), now)
            /\ rq' = [rq EXCEPT ![t] =
                  IF Truthy(cached_result)
                  THEN [started EXCEPT !.pc = "done", !.resp = Ok(cached_result),
                                       !.cache_age = now - cache[cache_key(op)].timestamp]
                  ELSE [started EXCEPT !.pc = "fetch"]]
    /\ UNCHANGED <<now, cacheVars, lastOK, lastRaw, endpoint>>

\* fetch_with_cache, lines 80-84
fetch_with_cache_probe(t) ==
    /\ rq[t].pc = "fetch"
    /\ LET key == md5(page_url(rq[t].op))
           cached_data == CacheManager_get(cache, key, now)
       IN  IF use_cache(rq[t].op)
           THEN /\ cache' = CacheManager_evict(cache, key, now)
                /\ rq' = [rq EXCEPT
                      ![t].hadFresh = key \in DOMAIN cache /\ Fresh(cache[key].timestamp, now),
                      ![t].html = IF Truthy(cached_data) THEN cached_data ELSE None,
                      ![t].pc = IF Truthy(cached_data) THEN "parse" ELSE "net"]
           ELSE /\ cache' = cache
                /\ rq' = [rq EXCEPT ![t].pc = "net"]
    /\ UNCHANGED <<now, cacheVars, lastOK, lastRaw, requests, endpoint>>

\* fetch_with_cache, lines 87-95: the upstream answers with a page
session_get(t) ==
    /\ rq[t].pc = "net"
    /\ \E doc \in Upstream(rq[t].op) :
          rq' = [rq EXCEPT ![t].html = Str(doc),
                           ![t].fetches = @ + 1,
                           ![t].pc = IF use_cache(rq[t].op) THEN "store" ELSE "parse"]
    /\ UNCHANGED <<cache, now, cacheVars, lastOK, lastRaw, requests, endpoint>>

\* a fetcher that tries again after a failed attempt
on_fetch_error_mutant(r) ==
    IF r.fetches = 0
    THEN [r EXCEPT !.fetches = @ + 1]
    ELSE [r EXCEPT !.fetches = @ + 1, !.netFailed = TRUE, !.pc = "done",
                   !.resp = Error(500, "Error fetching URL")]
\* lines 101-102, then the handler's except (lines 247-248, 306-307, 417-418, 508-509)
on_fetch_error(r) ==
    [r EXCEPT !.fetches = @ + 1, !.netFailed = TRUE, !.pc = "done",
              !.resp = Error(500, "Error fetching URL")]

\* fetch_with_cache, lines 87-88 raising requests.exceptions.RequestException
\* (timeout, connection failure, or raise_for_status on an error status)
session_get_fails(t) ==
    /\ rq[t].pc = "net"
    /\ rq' = [rq EXCEPT ![t] = on_fetch_error(rq[t])]
    /\ UNCHANGED <<cache, now, cacheVars, lastOK, lastRaw, requests, endpoint>>

\* fetch_with_cache, lines 97-100
fetch_with_cache_set(t) ==
    /\ rq[t].pc = "store"
    /\ LET key == md5(page_url(rq[t].op))
       IN  /\ cache' = CacheManager_set(cache, key, rq[t].html, now)
           /\ lastRaw' = [lastRaw EXCEPT ![key] = [body |-> rq[t].html, at |-> now]]
           /\ rq' = [rq EXCEPT ![t].pc = "parse", ![t].stored = @ \cup {key}]
    /\ UNCHANGED <<now, cacheVars, lastOK, requests, endpoint>>

\* search_anime, lines 269-299 and the except of lines 306-307
search_anime_parse(t) ==
    /\ rq[t].pc = "parse" /\ rq[t].op = "search"
    /\ LET doc == rq[t].html.s
       IN  rq' = [rq EXCEPT ![t] =
              IF \E i \in DOMAIN results_container(doc) :
                    search_item_raises(results_container(doc)[i])
              THEN [@ EXCEPT !.pc = "done", !.resp = Error(500, "'href'")]
              ELSE [@ EXCEPT !.pc = "save", !.result = search_result(doc)]]
    /\ UNCHANGED <<cache, now, cacheVars, lastOK, lastRaw, requests, endpoint>>

\* a fan-out task ends in one of these ways
TaskOutcomes == {"ok", "raise"}

\* a round's tasks, all submitted (still running), none with an outcome yet
Submitted(r, n) == [r EXCEPT !.running = 1..n, !.outcome = [i \in 1..n |-> "running"]]

\* get_homepage_data, lines 206-219: the first round is submitted
get_homepage_data_parse(t) ==
    /\ rq[t].pc = "parse" /\ rq[t].op = "home"
    /\ rq' = [rq EXCEPT ![t] =
          [Submitted(@, Len(most_watched_titles(rq[t].html.s))) EXCEPT !.pc = "round1"]]
    /\ UNCHANGED <<cache, now, cacheVars, lastOK, lastRaw, requests, endpoint>>

\* lines 222 and 237: future.result() re-raises inside the with block; nothing
\* catches it before the handler's except of line 247
home_task_raised(r) == [r EXCEPT !.pc = "raise"]

\* lines 221-224, one turn of "for future in as_completed(...)": some task of the
\* round completes, in any order
get_homepage_data_round1(t) ==
    /\ rq[t].pc = "round1"
    /\ \E i \in rq[t].running, o \in TaskOutcomes :
        LET r == [rq[t] EXCEPT !.running = @ \ {i}, !.outcome[i] = o]
            res == scrape_section_parallel(most_watched_titles(rq[t].html.s)[i])
        IN  rq' = [rq EXCEPT ![t] =
                IF o = "raise" THEN home_task_raised(r)
                ELSE [r EXCEPT !.all_anime_data = put_section(@, res)]]
    /\ UNCHANGED <<cache, now, cacheVars, lastOK, lastRaw, requests, endpoint>>

\* lines 227-234: the first round is over, the second is submitted
get_homepage_data_widgets(t) ==
    /\ rq[t].pc = "round1" /\ rq[t].running = {}
    /\ rq' = [rq EXCEPT ![t] =
          [Submitted(@, Len(widget_sections(rq[t].html.s))) EXCEPT !.pc = "round2"]]
    /\ UNCHANGED <<cache, now, cacheVars, lastOK, lastRaw, requests, endpoint>>

\* lines 236-240, one turn of the second loop
get_homepage_data_round2(t) ==
    /\ rq[t].pc = "round2"
    /\ \E i \in rq[t].running, o \in TaskOutcomes :
        LET r == [rq[t] EXCEPT !.running = @ \ {i}, !.outcome[i] = o]
            res == scrape_swiper_section_parallel(widget_sections(rq[t].html.s)[i])
        IN  rq' = [rq EXCEPT ![t] =
                IF o = "raise" THEN home_task_raised(r)
                ELSE [r EXCEPT !.all_anime_data = put_section(@, res)]]
    /\ UNCHANGED <<cache, now, cacheVars, lastOK, lastRaw, requests, endpoint>>

\* line 243 is reached: both rounds are over
get_homepage_data_result(t) ==
    /\ rq[t].pc = "round2" /\ rq[t].running = {}
    /\ rq' = [rq EXCEPT ![t].pc = "save", ![t].result = Dict(rq[t].all_anime_data)]
    /\ UNCHANGED <<cache, now, cacheVars, lastOK, lastRaw, requests, endpoint>>

\* the futures of lines 349-356: the positions of the buttons with both attributes
SeasonTasks(doc) == {i \in DOMAIN season_buttons(doc) : HasSeason(season_buttons(doc)[i])}

\* get_anime_info without the test of lines 342-343
get_anime_info_parse_mutant(t) ==
    /\ rq[t].pc = "parse" /\ rq[t].op = "detail"
    /\ LET doc == rq[t].html.s
       IN  rq' = [rq EXCEPT ![t] =
                    [@ EXCEPT !.pc = "seasons",
                              !.running = SeasonTasks(doc),
                              !.outcome = [i \in DOMAIN season_buttons(doc) |->
                                             IF i \in SeasonTasks(doc) THEN "running"
                                             ELSE "skipped"],
                              !.season_results = [i \in 1..Cardinality(SeasonTasks(doc)) |-> None]]]
    /\ UNCHANGED <<cache, now, cacheVars, lastOK, lastRaw, requests, endpoint>>
\* get_anime_info, lines 323-358: not found, or the season fetches are submitted
get_anime_info_parse(t) ==
    /\ rq[t].pc = "parse" /\ rq[t].op = "detail"
    /\ LET doc == rq[t].html.s
       IN  rq' = [rq EXCEPT ![t] =
              IF season_buttons(doc) = <<>>
              THEN [@ EXCEPT !.pc = "done", !.resp = Error(404, "No season buttons found")]
              ELSE [@ EXCEPT !.pc = "seasons",
                             !.running = SeasonTasks(doc),
                             !.outcome = [i \in DOMAIN season_buttons(doc) |->
                                            IF i \in SeasonTasks(doc) THEN "running"
                                            ELSE "skipped"],
                             !.season_results = [i \in 1..Cardinality(SeasonTasks(doc)) |-> None]]]
    /\ UNCHANGED <<cache, now, cacheVars, lastOK, lastRaw, requests, endpoint>>

\* a loop that appends the results as they complete
store_season_mutant(r, index, episodes) ==
    [r EXCEPT !.season_results[Len(r.season_results) - Cardinality(r.running)] = episodes]
\* season_results[index] = ..., lines 363 and 365, for an index in range
store_season(r, index, episodes) == [r EXCEPT !.season_results[index] = episodes]

\* get_episodes_for_season ends: with its <li> items, with [] after a
\* RequestException (lines 434-435), or raising anything else
SeasonOutcomes == {"ok", "neterr", "raise"}

\* lines 360-365, one turn of "for future in as_completed(future_to_season)".
\* index is the button's position (enumerate counts from 0, sequences here from 1);
\* beyond the list, line 363 or line 365 raises IndexError out of the loop
get_anime_info_season(t) ==
    /\ rq[t].pc = "seasons"
    /\ \E index \in rq[t].running, o \in SeasonOutcomes :
        LET r == [rq[t] EXCEPT !.running = @ \ {index}, !.outcome[index] = o,
                               !.subfetches = @ + 1, !.order = Append(@, index)]
            episodes == IF o = "ok" THEN List(season_lis(season_buttons(rq[t].html.s)[index]))
                        ELSE List(<<>>)
        IN  rq' = [rq EXCEPT ![t] =
                IF index > Len(rq[t].season_results)
                THEN [r EXCEPT !.pc = "raise"]
                ELSE store_season(r, index, episodes)]
    /\ UNCHANGED <<cache, now, cacheVars, lastOK, lastRaw, requests, endpoint>>

\* session = requests.Session(), line 26: the one object of the module
session == [owner |-> "module"]

\* a task that sends its request through the module's session
local_session_mutant(owner, task) == session
\* local_session = requests.Session(), lines 426 and 513: an object made by the
\* running task (of request thread owner), then used by its get of line 430 or 517
local_session(owner, task) == [owner |-> owner, task |-> task]

\* the fan-out tasks of a request thread that are at their network request
IoTasks(t) ==
    IF rq[t].op \in {"detail", "stream"} /\ rq[t].pc \in {"seasons", "scripts", "raise"}
    THEN rq[t].running ELSE {}

\* a handler that assembles the episodes without waiting for the season fetches
get_anime_info_result_mutant(t) ==
    /\ rq[t].pc = "seasons"
    /\ rq' = [rq EXCEPT ![t].pc = "save",
                        ![t].result = anime_data(rq[t].html.s,
                                         episode_records(extend_all(rq[t].season_results)))]
    /\ UNCHANGED <<cache, now, cacheVars, lastOK, lastRaw, requests, endpoint>>
\* lines 367-410: every season fetch is over; the episodes are assembled
get_anime_info_result(t) ==
    /\ rq[t].pc = "seasons" /\ rq[t].running = {}
    /\ rq' = [rq EXCEPT ![t].pc = "save",
                        ![t].result = anime_data(rq[t].html.s,
                                         episode_records(extend_all(rq[t].season_results)))]
    /\ UNCHANGED <<cache, now, cacheVars, lastOK, lastRaw, requests, endpoint>>

\* scan_js_file ends: with the URLs of the script, or with [] after any
\* exception (lines 520-521)
ScanOutcomes == {"ok", "neterr"}

\* get_streaming_links, lines 458-468: the scans of at most 5 of the script
\* URLs are submitted; js_file_urls is list(set(...)), in no order of its own
get_streaming_links_parse(t) ==
    /\ rq[t].pc = "parse" /\ rq[t].op = "stream"
    /\ LET found == js_file_urls[rq[t].html.s]
       IN  \E scanned \in SUBSET found :
              /\ Cardinality(scanned) = Min({ScanLimit, Cardinality(found)})
              /\ rq' = [rq EXCEPT ![t].pc = "scripts", ![t].running = scanned,
                                  ![t].outcome = [u \in scanned |-> "running"]]
    /\ UNCHANGED <<cache, now, cacheVars, lastOK, lastRaw, requests, endpoint>>

\* lines 470-476, one turn of "for future in as_completed(future_to_js)"
get_streaming_links_script(t) ==
    /\ rq[t].pc = "scripts"
    /\ \E js_url \in rq[t].running, o \in ScanOutcomes :
          rq' = [rq EXCEPT ![t].running = @ \ {js_url}, ![t].outcome[js_url] = o,
                           ![t].subfetches = @ + 1,
                           ![t].js_streams = @ \cup
                                (IF o = "ok" THEN scan_js_file[js_url] ELSE {})]
    /\ UNCHANGED <<cache, now, cacheVars, lastOK, lastRaw, requests, endpoint>>

\* lines 478-501: every scan is over; the links are combined and classified
get_streaming_links_result(t) ==
    /\ rq[t].pc = "scripts" /\ rq[t].running = {}
    /\ LET doc == rq[t].html.s
       IN  rq' = [rq EXCEPT ![t].pc = "save",
                            ![t].all_streams = html_streams[doc] \cup rq[t].js_streams,
                            ![t].result = stream_results[doc][rq[t].js_streams]]
    /\ UNCHANGED <<cache, now, cacheVars, lastOK, lastRaw, requests, endpoint>>

\* an exception leaves "with ThreadPoolExecutor(...)": __exit__ waits for the
\* tasks still running (shutdown(wait=True)), their results are dropped
executor_exit(t) ==
    /\ rq[t].pc = "raise" /\ rq[t].running # {}
    /\ \E i \in rq[t].running :
          rq' = [rq EXCEPT ![t].running = @ \ {i}, ![t].outcome[i] = "dropped"]
    /\ UNCHANGED <<cache, now, cacheVars, lastOK, lastRaw, requests, endpoint>>

\* the handler's "except Exception as e: return jsonify({"error": str(e)}), 500"
handler_except(t) ==
    /\ rq[t].pc = "raise" /\ rq[t].running = {}
    /\ rq' = [rq EXCEPT ![t].pc = "done", ![t].resp = Error(500, "exception")]
    /\ UNCHANGED <<cache, now, cacheVars, lastOK, lastRaw, requests, endpoint>>

\* cache.set(cache_key, result) and return jsonify(result): lines 243-245, 302-304,
\* 413-415, 504-506
handler_save(t) ==
    /\ rq[t].pc = "save"
    /\ LET key == cache_key(rq[t].op)
       IN  /\ cache' = CacheManager_set(cache, key, rq[t].result, now)
           /\ lastOK' = [lastOK EXCEPT ![key] = [resp |-> Ok(rq[t].result), at |-> now]]
           /\ rq' = [rq EXCEPT ![t].pc = "done", ![t].resp = Ok(rq[t].result),
                               ![t].stored = @ \cup {key}]
    /\ UNCHANGED <<now, cacheVars, lastRaw, requests, endpoint>>

\* the response is sent; the thread serves the next request
handler_return(t) ==
    /\ rq[t].pc = "done"
    /\ rq' = [rq EXCEPT ![t] = IdleRequest]
    /\ UNCHANGED <<cache, now, cacheVars, lastOK, lastRaw, requests, endpoint>>

Next ==
    \/ Tick
    \/ \E t \in Threads : handler_probe(t)
    \/ \E t \in Threads : fetch_with_cache_probe(t)
    \/ \E t \in Threads : session_get(t)
    \/ \E t \in Threads : session_get_fails(t)
    \/ \E t \in Threads : fetch_with_cache_set(t)
    \/ \E t \in Threads : search_anime_parse(t)
    \/ \E t \in Threads : get_homepage_data_parse(t)
    \/ \E t \in Threads : get_homepage_data_round1(t)
    \/ \E t \in Threads : get_homepage_data_widgets(t)
    \/ \E t \in Threads : get_homepage_data_round2(t)
    \/ \E t \in Threads : get_homepage_data_result(t)
    \/ \E t \in Threads : get_anime_info_parse(t)
    \/ \E t \in Threads : get_anime_info_season(t)
    \/ \E t \in Threads : get_anime_info_result(t)
    \/ \E t \in Threads : get_streaming_links_parse(t)
    \/ \E t \in Threads : get_streaming_links_script(t)
    \/ \E t \in Threads : get_streaming_links_result(t)
    \/ \E t \in Threads : executor_exit(t)
    \/ \E t \in Threads : handler_except(t)
    \/ \E t \in Threads : handler_save(t)
    \/ \E t \in Threads : handler_return(t)

Spec == Init /\ [][Next]_vars

(***************************************************************************)
(* The same handlers with every request of a behaviour going to one        *)
(* endpoint                                                                *)
(***************************************************************************)
NextHome ==
    \/ Tick
    \/ \E t \in Threads : handler_probe(t)
    \/ \E t \in Threads : fetch_with_cache_probe(t)
    \/ \E t \in Threads : session_get(t)
    \/ \E t \in Threads : session_get_fails(t)
    \/ \E t \in Threads : fetch_with_cache_set(t)
    \/ \E t \in Threads : get_homepage_data_parse(t)
    \/ \E t \in Threads : get_homepage_data_round1(t)
    \/ \E t \in Threads : get_homepage_data_widgets(t)
    \/ \E t \in Threads : get_homepage_data_round2(t)
    \/ \E t \in Threads : get_homepage_data_result(t)
    \/ \E t \in Threads : executor_exit(t)
    \/ \E t \in Threads : handler_except(t)
    \/ \E t \in Threads : handler_save(t)
    \/ \E t \in Threads : handler_return(t)

InitHome == Init /\ endpoint = "home"

SpecHome == InitHome /\ [][NextHome]_vars

NextSearch ==
    \/ Tick
    \/ \E t \in Threads : handler_probe(t)
    \/ \E t \in Threads : fetch_with_cache_probe(t)
    \/ \E t \in Threads : session_get(t)
    \/ \E t \in Threads : session_get_fails(t)
    \/ \E t \in Threads : fetch_with_cache_set(t)
    \/ \E t \in Threads : search_anime_parse(t)
    \/ \E t \in Threads : handler_save(t)
    \/ \E t \in Threads : handler_return(t)

InitSearch == Init /\ endpoint = "search"

SpecSearch == InitSearch /\ [][NextSearch]_vars

NextDetail ==
    \/ Tick
    \/ \E t \in Threads : handler_probe(t)
    \/ \E t \in Threads : fetch_with_cache_probe(t)
    \/ \E t \in Threads : session_get(t)
    \/ \E t \in Threads : session_get_fails(t)
    \/ \E t \in Threads : fetch_with_cache_set(t)
    \/ \E t \in Threads : get_anime_info_parse(t)
    \/ \E t \in Threads : get_anime_info_season(t)
    \/ \E t \in Threads : get_anime_info_result(t)
    \/ \E t \in Threads : executor_exit(t)
    \/ \E t \in Threads : handler_except(t)
    \/ \E t \in Threads : handler_save(t)
    \/ \E t \in Threads : handler_return(t)

InitDetail == Init /\ endpoint = "detail"

SpecDetail == InitDetail /\ [][NextDetail]_vars

NextStream ==
    \/ Tick
    \/ \E t \in Threads : handler_probe(t)
    \/ \E t \in Threads : fetch_with_cache_probe(t)
    \/ \E t \in Threads : session_get(t)
    \/ \E t \in Threads : session_get_fails(t)
    \/ \E t \in Threads : get_streaming_links_parse(t)
    \/ \E t \in Threads : get_streaming_links_script(t)
    \/ \E t \in Threads : get_streaming_links_result(t)
    \/ \E t \in Threads : handler_save(t)
    \/ \E t \in Threads : handler_return(t)

InitStream == Init /\ endpoint = "stream"

SpecStream == InitStream /\ [][NextStream]_vars

(***************************************************************************)
(* C3: when fetch_with_cache(u, use_cache=True) finds an unexpired entry   *)
(* for u's fingerprint in the cache, whatever body it holds (the empty     *)
(* body too), it returns that body and issues no network call.             *)
(***************************************************************************)
C3_HitIssuesNoNetworkCall ==
    \A t \in Threads :
        (rq[t].pc = "net" /\ use_cache(rq[t].op)) => ~rq[t].hadFresh

(***************************************************************************)
(* C4: a request that starts less than ttl after the last response stored  *)
(* under its request key returns that very response and triggers no        *)
(* upstream fetch, whatever the response holds (no sections, no results).  *)
(***************************************************************************)
C4_RepeatedRequestServedFromCache ==
    \A t \in Threads :
        rq[t].prior # None =>
            /\ rq[t].fetches = 0 /\ rq[t].subfetches = 0
            /\ rq[t].pc = "done" => rq[t].resp = rq[t].prior

\* the <li> items of the seasons in button order, a failed or skipped season
\* giving none
RECURSIVE SeasonsInButtonOrder(_, _, _)
SeasonsInButtonOrder(buttons, outcome, i) ==
    IF i > Len(buttons) THEN <<>>
    ELSE (IF outcome[i] = "ok" THEN season_lis(buttons[i]) ELSE <<>>)
         \o SeasonsInButtonOrder(buttons, outcome, i + 1)

(***************************************************************************)
(* C5: the episodes of a detail response are the episode records of the    *)
(* per-season results concatenated in the order of the season buttons on   *)
(* the page, whatever the order in which the season fetches completed.     *)
(***************************************************************************)
C5_EpisodesInButtonOrder ==
    \A t \in Threads :
        (rq[t].op = "detail" /\ rq[t].pc = "save") =>
            rq[t].result.d.episodes =
                episode_records(SeasonsInButtonOrder(season_buttons(rq[t].html.s),
                                                     rq[t].outcome, 1))

\* both seasons fetched, the second completing first, and the response built
C5_Witness ==
    \E t \in Threads :
        /\ rq[t].op = "detail" /\ rq[t].pc = "save"
        /\ rq[t].order = <<2, 1>>
        /\ rq[t].outcome = <<"ok", "ok">>
        /\ Len(rq[t].result.d.episodes) = 2
        /\ rq[t].result.d.episodes[1].episode_number = "1x1"

\* some task of the request's fan-out rounds raised
TaskRaised(r) == \E i \in DOMAIN r.outcome : r.outcome[i] = "raise"

C9_FetchErrorNotRetried ==
    \A t \in Threads :
        /\ rq[t].netFailed =>
              /\ rq[t].pc = "done"
              /\ rq[t].resp.status = 500
              /\ rq[t].fetches = 1
              /\ rq[t].stored = {}
        /\ rq[t].fetches <= 1

\* a page fetch has failed and the handler answers 500
C9_Witness ==
    \E t \in Threads :
        /\ rq[t].netFailed /\ rq[t].pc = "done"
        /\ rq[t].resp.status = 500 /\ rq[t].fetches = 1
        /\ \E u \in Threads \ {t} : rq[u].stored # {}

(***************************************************************************)
(* C10: a search request whose page was fetched returns a successful       *)
(* response whatever records the page holds: a malformed record (an        *)
(* anchor without href) is skipped or filled with 'N/A', never fatal.      *)
(***************************************************************************)
C10_MalformedRecordNotFatal ==
    \A t \in Threads :
        (rq[t].op = "search" /\ rq[t].pc = "done" /\ rq[t].html # None) =>
            rq[t].resp.status = 200


(***************************************************************************)
(* C7: the m3u8_links, video_links and iframes of a stream response are    *)
(* pairwise disjoint: no URL is in two of them.                            *)
(***************************************************************************)
C7_BucketsDisjoint ==
    \A t \in Threads :
        (rq[t].op = "stream" /\ rq[t].pc = "save") =>
            LET d == rq[t].result.d
            IN  /\ d.m3u8_links \cap d.video_links = {}
                /\ d.m3u8_links \cap d.iframes = {}
                /\ d.video_links \cap d.iframes = {}

\* the file extension of a URL: of the last segment of its path, the query left out
Extension(url) ==
    LET marks == {i \in 1..Len(url) : SubSeq(url, i, i) = "?"}
        path == IF marks = {} THEN url ELSE SubSeq(url, 1, Min(marks) - 1)
        slashes == {i \in 1..Len(path) : SubSeq(path, i, i) = "/"}
        dots == {i \in 1..Len(path) : SubSeq(path, i, i) = "." /\ \A j \in slashes : j < i}
    IN  IF dots = {} THEN "" ELSE Lower(Drop(path, Max(dots) - 1))

(***************************************************************************)
(* C8: classification is by file extension: an extracted URL of extension  *)
(* .m3u8 is in m3u8_links, one of a direct-media extension the extraction  *)
(* matches (mp4, webm, ogg, mov, mkv, ts) is in video_links, and a URL is  *)
(* in neither only when its extension is a non-media asset extension.      *)
(***************************************************************************)
C8_ClassifiedByExtension ==
    \A t \in Threads :
        (rq[t].op = "stream" /\ rq[t].pc = "save") =>
            \A url \in rq[t].all_streams :
                LET d == rq[t].result.d
                IN  /\ Extension(url) = ".m3u8" => url \in d.m3u8_links
                    /\ Extension(url) \in VideoExts => url \in d.video_links
                    /\ url \notin d.m3u8_links \cup d.video_links =>
                          Extension(url) \in NonStreamExts

(***************************************************************************)
(* C11: once clear has run, the cache holds no entry, whatever the age of  *)
(* the entries it held, and a get(k) returns None until a set(k, .) runs   *)
(* after the clear; clear has no failing outcome (its body always reaches  *)
(* the release of the lock).                                               *)
(***************************************************************************)
C11_ClearedUntilSet ==
    \A t \in Threads :
        /\ (th[t].op = "clear" /\ th[t].pc = "release") => cache = EmptyCache
        /\ (GetDone(t) /\ lastSet[th[t].key] = None) => th[t].ret = None
        /\ \A k \in cleared : k \notin DOMAIN cache /\ lastSet[k] = None

\* a get returns None for a key set and then cleared in the same second
C11_Witness ==
    \E t \in Threads :
        /\ GetDone(t) /\ th[t].key \in cleared
        /\ th[t].at = 0 /\ th[t].ret = None

(***************************************************************************)
(* C12: a detail request whose page holds no season button answers 404,    *)
(* issues no season fetch and stores no derived response under its         *)
(* request key.                                                            *)
(***************************************************************************)
C12_NoSeasonsIsNotFound ==
    \A t \in Threads :
        (/\ rq[t].op = "detail" /\ rq[t].html # None
         /\ season_buttons(rq[t].html.s) = <<>>)
        => /\ rq[t].pc \in {"store", "parse", "done"}
           /\ rq[t].subfetches = 0
           /\ cache_key("detail") \notin rq[t].stored
           /\ rq[t].pc = "done" => rq[t].resp = Error(404, "No season buttons found")

\* the page with a title and no season button was fetched, stored as a page
\* body, and answered with 404
C12_Witness ==
    \E t \in Threads :
        /\ rq[t].op = "detail" /\ rq[t].pc = "done"
        /\ rq[t].html = Str("<h1>Solo</h1>")
        /\ rq[t].resp.status = 404
        /\ rq[t].stored = {md5(page_url("detail"))}

RoundThread == "t1"

HandlerStep(t) ==
    \/ fetch_with_cache_probe(t)
    \/ session_get(t)
    \/ session_get_fails(t)
    \/ fetch_with_cache_set(t)
    \/ search_anime_parse(t)
    \/ get_homepage_data_parse(t)
    \/ get_homepage_data_round1(t)
    \/ get_homepage_data_widgets(t)
    \/ get_homepage_data_round2(t)
    \/ get_homepage_data_result(t)
    \/ get_anime_info_parse(t)
    \/ get_anime_info_season(t)
    \/ get_anime_info_result(t)
    \/ get_streaming_links_parse(t)
    \/ get_streaming_links_script(t)
    \/ get_streaming_links_result(t)
    \/ executor_exit(t)
    \/ handler_except(t)
    \/ handler_save(t)
    \/ handler_return(t)

NextRounds ==
    \/ Tick
    \/ handler_probe(RoundThread)
    \/ HandlerStep(RoundThread)

SpecRounds == Init /\ [][NextRounds]_vars /\ WF_vars(HandlerStep(RoundThread))

\* the positions of a handler inside a fan-out round (the with block)
InRound(t) == rq[t].pc \in {"round1", "round2", "seasons", "scripts", "raise"}

(***************************************************************************)
(* C14: a response is assembled, cached and returned only when no task of  *)
(* the request's round is still running, and a handler inside a round      *)
(* eventually returns when every task terminates.                          *)
(***************************************************************************)
C14_RoundCompletesBeforeResponse ==
    /\ [](\A t \in Threads :
            /\ rq[t].pc \in {"save", "done", "idle"} =>
                  /\ rq[t].running = {}
                  /\ \A i \in DOMAIN rq[t].outcome : rq[t].outcome[i] # "running"
            /\ rq[t].stored \cap DerivedKeys # {} => rq[t].running = {})
    /\ \A t \in Threads : InRound(t) ~> (rq[t].pc = "done")

\* a detail response was cached and is returned after both season fetches
C14_Witness ==
    \E t \in Threads :
        /\ rq[t].op = "detail" /\ rq[t].pc = "done"
        /\ rq[t].subfetches = 2 /\ rq[t].running = {}
        /\ cache_key("detail") \in rq[t].stored

\* the host of the upstream site
UpstreamHost == "animesalt.cc"

(***************************************************************************)
(* C15: a link of a search response that was extracted from a link to the *)
(* upstream site is relative to the site origin: a link starting with the  *)
(* origin is returned with exactly that leading prefix removed, and no     *)
(* returned link is an absolute URL of the upstream host.                  *)
(***************************************************************************)
C15_LinksRelativeToOrigin ==
    \A t \in Threads :
        (rq[t].op = "search" /\ rq[t].pc = "save") =>
            \A i \in DOMAIN results_container(rq[t].html.s) :
                LET href == results_container(rq[t].html.s)[i].href
                    link == rq[t].result.d.results[i].link
                IN  /\ StartsWith(href, BASE_URL) => link = Drop(href, Len(BASE_URL))
                    /\ \A scheme \in {"http://", "https://"} :
                          ~StartsWith(link, scheme \o UpstreamHost)

(***************************************************************************)
(* C16: the response of a fan-out operation is a function of the fetched   *)
(* page contents: two requests of the same operation that fetched the same *)
(* page, whose tasks ended the same way, build the same response whatever  *)
(* the order in which their tasks completed (two home sections of one name *)
(* included).                                                              *)
(***************************************************************************)
C16_ResponseDeterminedByPage ==
    \A t \in Threads, u \in Threads :
        (/\ rq[t].op \in {"home", "stream"} /\ rq[u].op = rq[t].op
         /\ rq[t].pc = "save" /\ rq[u].pc = "save"
         /\ rq[t].html = rq[u].html
         /\ rq[t].outcome = rq[u].outcome)
        => rq[t].result = rq[u].result

(***************************************************************************)
(* One request thread serving stream requests, the upstream answering with *)
(* a page that refers to more than ScanLimit scripts.                      *)
(***************************************************************************)
\* fetch_with_cache, lines 87-95: the upstream answers with such a page
session_get_scripts(t) ==
    /\ rq[t].pc = "net" /\ rq[t].op = "stream"
    /\ \E doc \in ScriptDocs :
          rq' = [rq EXCEPT ![t].html = Str(doc), ![t].fetches = @ + 1, ![t].pc = "parse"]
    /\ UNCHANGED <<cache, now, cacheVars, lastOK, lastRaw, requests, endpoint>>

NextScripts ==
    \/ Tick
    \/ handler_probe(RoundThread)
    \/ fetch_with_cache_probe(RoundThread)
    \/ session_get_scripts(RoundThread)
    \/ session_get_fails(RoundThread)
    \/ get_streaming_links_parse(RoundThread)
    \/ get_streaming_links_script(RoundThread)
    \/ get_streaming_links_result(RoundThread)
    \/ handler_save(RoundThread)
    \/ handler_return(RoundThread)

SpecScripts == InitStream /\ [][NextScripts]_vars

\* the first n distinct script URLs of a page, in the order of the page
first_js_file_urls(text, base_url, n) ==
    LET refs == {j \in DOMAIN text : /\ text[j].tag = "script"
                                      /\ \/ EndsWith(text[j].s, ".js")
                                         \/ Contains(text[j].s, "javascript")}
        first == {j \in refs : \A k \in refs : k < j => text[k].s # text[j].s}
    IN  {urljoin(base_url, text[j].s) :
            j \in {i \in first : Cardinality({k \in first : k < i}) < n}}

(***************************************************************************)
(* C17: a stream request submits at most 5 script scans, and the scripts   *)
(* it scans are the first 5 script references of the page in page order,   *)
(* the same for every request that reads the page.                         *)
(***************************************************************************)
C17_FirstFiveScriptsScanned ==
    \A t \in Threads :
        (rq[t].op = "stream" /\ rq[t].pc \in {"scripts", "save"}) =>
            /\ Cardinality(DOMAIN rq[t].outcome) <= ScanLimit
            /\ DOMAIN rq[t].outcome =
                  first_js_file_urls(page_text(rq[t].html.s), page_url("stream"), ScanLimit)

\* "Cache for 1 minute only (streaming links change frequently)", line 503
StreamTtl == 60

(***************************************************************************)
(* C18: a stream response is served from the cache only while it is less   *)
(* than 60 seconds old: a stream request arriving 60 seconds or more after *)
(* the store rebuilds the result.                                          *)
(***************************************************************************)
C18_StreamCachedOneMinute ==
    \A t \in Threads :
        (rq[t].op = "stream" /\ rq[t].cache_age >= 0) => rq[t].cache_age < StreamTtl

(***************************************************************************)
(* C19: in a detail request every index written into season_results is     *)
(* within its bounds, also when some season buttons lack data-post or      *)
(* data-season: those buttons are skipped and the request succeeds.        *)
(***************************************************************************)
C19_SeasonIndexInRange ==
    \A t \in Threads :
        (rq[t].op = "detail" /\ rq[t].html # None /\ season_buttons(rq[t].html.s) # <<>>) =>
            /\ \A i \in DOMAIN rq[t].outcome :
                  rq[t].outcome[i] \in SeasonOutcomes => i <= Len(rq[t].season_results)
            /\ rq[t].pc = "done" => rq[t].resp.status = 200

(***************************************************************************)
(* C20: for every URL fetched with use_cache=True, at most one upstream    *)
(* fetch is issued per TTL window: two requests in flight at the same      *)
(* time, arriving while no entry for the URL is cached, do not both fetch  *)
(* it.  The clock starts at 0 and never goes back, so while now < ttl      *)
(* every fetch made so far lies in one window; the bodies are non-empty,   *)
(* so that a stored body is one the cache gives back.                      *)
(***************************************************************************)
FetchedUpstream(t) ==
    /\ rq[t].op # "none" /\ use_cache(rq[t].op)
    /\ rq[t].fetches >= 1 /\ ~rq[t].netFailed
    /\ rq[t].html # None /\ Truthy(rq[t].html)

C20_OneFetchPerTtlWindow ==
    \A t \in Threads : \A u \in Threads \ {t} :
        (now < ttl /\ FetchedUpstream(t) /\ FetchedUpstream(u)) =>
            page_url(rq[t].op) # page_url(rq[u].op)

(***************************************************************************)
(* C21: every response served by home, search or detail is derived from a  *)
(* page body fetched from the network less than ttl before the response is *)
(* served; stated here for the responses served from the derived entry of  *)
(* the cache (lines 199-202, 259-262, 314-317).  A body is stored in the   *)
(* cache after it is fetched and before anything is derived from it, so    *)
(* every body a response can be derived from was fetched no later than the *)
(* last store of the page's body: when that store is ttl or more in the    *)
(* past, so is the fetch.                                                  *)
(***************************************************************************)
ServesFromCache(t) ==
    /\ rq[t].pc = "idle" /\ rq'[t].pc = "done"
    /\ rq'[t].op \in {"home", "search", "detail"}
    /\ rq'[t].resp.status = 200

C21_ServedBodyYoungerThanTtl ==
    [][\A t \in Threads :
          ServesFromCache(t) =>
              LET raw == lastRaw'[md5(page_url(rq'[t].op))]
              IN  raw # None /\ now' - raw.at < ttl]_vars

====
